---- MODULE Spec2Model ----
(***************************************************************************)
(* Crop and pad transforms of monai/transforms/croppad/array.py over       *)
(* channel-first arrays.                                                   *)
(*                                                                         *)
(* An array is modelled by its axes.  Every transform of the module acts   *)
(* on each axis separately (np.pad with per-axis widths, basic slicing     *)
(* with per-axis slices), so an array is a sequence of axes, axis 1 being  *)
(* the channel axis, and an axis is the sequence of the source coordinates *)
(* (0-based) its positions hold, PadMark standing for a position that      *)
(* np.pad added.  The element at position (i1, .., in) of the array is the *)
(* source element at (axis1[i1], .., axisn[in]), or padding when one of    *)
(* these is PadMark.                                                       *)
(***************************************************************************)
EXTENDS Integers, Sequences, FiniteSets, TLC

VARIABLES image, arg, arg2, last, prev, cropper, rsc, R

vars == <<image, arg, arg2, last, prev, cropper, rsc, R>>

-----------------------------------------------------------------------------
(* Bounds of the model. *)

\* largest number of spatial dimensions of an input
MaxDims == 2
\* largest size of a spatial dimension of an input
MaxSize == 4
\* largest size of the one spatial dimension of a one-dimensional input
MaxLen == 8
\* number of channels of every input
NChan == 2
\* largest border value handed to BorderPad
MaxBorder == 1
\* largest coordinate handed to SpatialCrop, and largest size of a spatial
\* dimension of the arrays SpatialCrop and RandSpatialCrop are called on
MaxRoi == 2
\* number of distinct seeds
NumSeeds == 3
\* draws a generator may serve before it must be reseeded
MaxDraws == 6

\* np.uint16: values are kept modulo 2^16
UInt16Mod == 65536

-----------------------------------------------------------------------------
(* Python values. *)

PadMark == -1

Max(a, b) == IF a >= b THEN a ELSE b
Min(a, b) == IF a <= b THEN a ELSE b

\* a Python argument that is either one int or a sequence of ints
Scalar(v) == [kind |-> "int", val |-> <<v>>]
List(s) == [kind |-> "seq", val |-> s]

Lists(vals, lens) == UNION {[1..n -> vals] : n \in lens}

\* an error raised by a call, and a value returned by it
Raise(e) == [ok |-> FALSE, err |-> e, val |-> <<>>, alias |-> FALSE]
Return(v) == [ok |-> TRUE, err |-> "", val |-> v, alias |-> FALSE]
\* the call returned the very object it was handed
ReturnSame(v) == [ok |-> TRUE, err |-> "", val |-> v, alias |-> TRUE]

\* monai.utils.misc.ensure_tuple: a scalar becomes a 1-tuple
ensure_tuple(x) == x.val

\* monai.utils.misc.ensure_tuple_rep: a scalar is repeated dim times, a
\* sequence must already have dim entries
ensure_tuple_rep(x, dim) ==
    IF x.kind = "int" THEN Return([i \in 1..dim |-> x.val[1]])
    ELSE IF Len(x.val) = dim THEN Return(x.val)
    ELSE Raise("ValueError")

-----------------------------------------------------------------------------
(* Arrays. *)

Axis(n) == [j \in 1..n |-> j - 1]

\* the source array of a given spatial shape
Image(shape) == <<Axis(NChan)>> \o [i \in 1..Len(shape) |-> Axis(shape[i])]

Shape(img) == [i \in 1..Len(img) |-> Len(img[i])]
SpatialShape(img) == Tail(Shape(img))

Shapes == Lists(1..MaxSize, 1..MaxDims) \cup {<<n>> : n \in 1..MaxLen}
Images == {Image(s) : s \in Shapes}

Padding(n) == [j \in 1..n |-> PadMark]

\* numpy.pad(img, pad_width): one (before, after) pair per axis
NpPad(img, pad_width) ==
    IF Len(pad_width) # Len(img) THEN Raise("ValueError")
    ELSE Return([i \in 1..Len(img) |->
                    Padding(pad_width[i][1]) \o img[i] \o Padding(pad_width[i][2])])

\* img[tuple(slices)] with slices[i] = <<start, stop>> on the axes after
\* the channel axis, slice(None) on the channel axis and on the axes the
\* slices do not reach; start and stop are clipped to the axis as Python
\* slicing clips them
SliceAxis(ax, s, e) ==
    LET lo == Min(s, Len(ax))
        hi == Min(e, Len(ax))
    IN  IF hi <= lo THEN <<>> ELSE SubSeq(ax, lo + 1, hi)

Index(img, slices) ==
    [i \in 1..Len(img) |->
        IF i = 1 \/ i - 1 > Len(slices) THEN img[i]
        ELSE SliceAxis(img[i], slices[i - 1][1], slices[i - 1][2])]

-----------------------------------------------------------------------------
(* SpatialPad *)

SpatialPad_init(spatial_size, method) ==
    [spatial_size |-> ensure_tuple(spatial_size), method |-> method]

\* a variant that gives the odd unit of a symmetric pad to the leading side
determine_data_pad_width_LeadingExtra(self, data_shape) ==
    IF self.method = "symmetric"
    THEN [i \in 1..Len(self.spatial_size) |->
            LET width == Max(self.spatial_size[i] - data_shape[i], 0)
            IN  <<width - (width \div 2), width \div 2>>]
    ELSE [i \in 1..Len(self.spatial_size) |->
            <<0, Max(self.spatial_size[i] - data_shape[i], 0)>>]

determine_data_pad_width(self, data_shape) ==
    IF self.method = "symmetric"
    THEN [i \in 1..Len(self.spatial_size) |->
            LET width == Max(self.spatial_size[i] - data_shape[i], 0)
            IN  <<width \div 2, width - (width \div 2)>>]
    ELSE [i \in 1..Len(self.spatial_size) |->
            <<0, Max(self.spatial_size[i] - data_shape[i], 0)>>]

AllZero(pad_width) == \A i \in 1..Len(pad_width) : pad_width[i] = <<0, 0>>

SpatialPad_call(self, img) ==
    IF Len(self.spatial_size) > Len(img) - 1 THEN Raise("IndexError")
    ELSE LET data_pad_width == determine_data_pad_width(self, SpatialShape(img))
             all_pad_width == <<<<0, 0>>>> \o data_pad_width
         IN  IF AllZero(all_pad_width) THEN ReturnSame(img)
             ELSE NpPad(img, all_pad_width)

-----------------------------------------------------------------------------
(* BorderPad *)

\* a variant that takes a border of 2 values, not of 2n, as (before, after)
BorderPadWidth_TwoValues(spatial_border, n) ==
    IF Len(spatial_border) = 1
    THEN Return([i \in 1..n |-> <<spatial_border[1], spatial_border[1]>>])
    ELSE IF Len(spatial_border) = n
    THEN Return([i \in 1..n |-> <<spatial_border[i], spatial_border[i]>>])
    ELSE IF Len(spatial_border) = 2
    THEN Return([i \in 1..n |-> <<spatial_border[1], spatial_border[2]>>])
    ELSE Raise("ValueError")

BorderPadWidth(spatial_border, n) ==
    IF Len(spatial_border) = 1
    THEN Return([i \in 1..n |-> <<spatial_border[1], spatial_border[1]>>])
    ELSE IF Len(spatial_border) = n
    THEN Return([i \in 1..n |-> <<spatial_border[i], spatial_border[i]>>])
    ELSE IF Len(spatial_border) = n * 2
    THEN Return([i \in 1..n |-> <<spatial_border[2 * i - 1], spatial_border[2 * i]>>])
    ELSE Raise("ValueError")

BorderPad_call(self, img) ==
    LET spatial_shape == SpatialShape(img)
        spatial_border == ensure_tuple(self.spatial_border)
    IN  IF \E i \in 1..Len(spatial_border) : spatial_border[i] < 0
        THEN Raise("ValueError")
        ELSE LET w == BorderPadWidth(spatial_border, Len(spatial_shape))
             IN  IF ~w.ok THEN w
                 ELSE NpPad(img, <<<<0, 0>>>> \o w.val)

-----------------------------------------------------------------------------
(* DivisiblePad *)

\* a variant that rounds up even when k_d divides dim
CeilDiv_AlwaysUp(dim, k_d) == (dim \div k_d) + 1

\* int(np.ceil(dim / k_d) * k_d)
CeilDiv(dim, k_d) == IF dim % k_d = 0 THEN dim \div k_d ELSE (dim \div k_d) + 1

NewDim(dim, k_d) == IF k_d > 0 THEN CeilDiv(dim, k_d) * k_d ELSE dim

DivisiblePad_call(self, img) ==
    LET spatial_shape == SpatialShape(img)
        k == ensure_tuple_rep(self.k, Len(spatial_shape))
    IN  IF ~k.ok THEN k
        ELSE LET new_size == [i \in 1..Len(spatial_shape) |->
                                 NewDim(spatial_shape[i], k.val[i])]
             IN  SpatialPad_call(SpatialPad_init(List(new_size), "symmetric"), img)

-----------------------------------------------------------------------------
(* SpatialCrop *)

\* np.asarray(x, dtype=np.uint16): every entry is kept modulo 2^16 (the
\* conversion is silent: a negative entry becomes a large positive one)
AsUInt16(x) == [kind |-> x.kind, val |-> [i \in 1..Len(x.val) |-> x.val[i] % UInt16Mod]]

\* numpy broadcasting of two arrays of at most one dimension: the length of
\* the result, 0 when the shapes do not broadcast
BroadcastLen(a, b) ==
    IF a.kind = "int" THEN Len(b.val)
    ELSE IF b.kind = "int" THEN Len(a.val)
    ELSE IF Len(a.val) = Len(b.val) THEN Len(a.val)
    ELSE IF Len(a.val) = 1 THEN Len(b.val)
    ELSE IF Len(b.val) = 1 THEN Len(a.val)
    ELSE 0

Entry(a, i) == IF Len(a.val) = 1 THEN a.val[1] ELSE a.val[i]

\* the three assertions that end SpatialCrop.__init__
RoiAsserts(roi_start, roi_end) ==
    IF ~(\A i \in 1..Len(roi_start) : roi_start[i] >= 0)
    THEN Raise("AssertionError: roi_start")
    ELSE IF ~(\A i \in 1..Len(roi_end) : roi_end[i] > 0)
    THEN Raise("AssertionError: roi_end")
    ELSE IF ~(\A i \in 1..Len(roi_end) : roi_end[i] >= roi_start[i])
    THEN Raise("AssertionError: invalid roi range")
    ELSE Return([roi_start |-> roi_start, roi_end |-> roi_end])

\* a variant that starts the ROI ceil(size / 2) before the center
SpatialCrop_init_center_CeilHalf(roi_center, roi_size) ==
    LET c == AsUInt16(roi_center)
        s == AsUInt16(roi_size)
        n == BroadcastLen(c, s)
    IN  IF n = 0 THEN Raise("ValueError")
        ELSE LET roi_start == [i \in 1..n |->
                                 (Entry(c, i) - ((Entry(s, i) + 1) \div 2)) % UInt16Mod]
                 roi_end == [i \in 1..n |-> (roi_start[i] + Entry(s, i)) % UInt16Mod]
             IN  RoiAsserts(roi_start, roi_end)

\* SpatialCrop(roi_center=.., roi_size=..)
SpatialCrop_init_center(roi_center, roi_size) ==
    LET c == AsUInt16(roi_center)
        s == AsUInt16(roi_size)
        n == BroadcastLen(c, s)
    IN  IF n = 0 THEN Raise("ValueError")
        ELSE LET roi_start == [i \in 1..n |->
                                 (Entry(c, i) - (Entry(s, i) \div 2)) % UInt16Mod]
                 roi_end == [i \in 1..n |-> (roi_start[i] + Entry(s, i)) % UInt16Mod]
             IN  RoiAsserts(roi_start, roi_end)

\* SpatialCrop(roi_start=.., roi_end=..), both sequences of one length
SpatialCrop_init_bounds(roi_start, roi_end) ==
    RoiAsserts(AsUInt16(roi_start).val, AsUInt16(roi_end).val)

\* a variant that leaves the bounds to the slicing, which clips them
SpatialCrop_call_Clipped(self, img) ==
    LET max_end == SpatialShape(img)
        sd == Min(Len(self.roi_start), Len(max_end))
    IN  Return(Index(img, [i \in 1..sd |-> <<self.roi_start[i], self.roi_end[i]>>]))


SpatialCrop_call(self, img) ==
    LET max_end == SpatialShape(img)
        sd == Min(Len(self.roi_start), Len(max_end))
    IN  IF ~(\A i \in 1..sd : max_end[i] >= self.roi_start[i])
        THEN Raise("AssertionError: roi start out of image space")
        ELSE IF ~(\A i \in 1..sd : max_end[i] >= self.roi_end[i])
        THEN Raise("AssertionError: roi end out of image space")
        ELSE Return(Index(img, [i \in 1..sd |-> <<self.roi_start[i], self.roi_end[i]>>]))

-----------------------------------------------------------------------------
(* CenterSpatialCrop *)

\* a variant that takes (size - 1) // 2 as the center
CenterSpatialCrop_call_CenterLow(self, img) ==
    LET shape == SpatialShape(img)
        center == [i \in 1..Len(shape) |-> (shape[i] - 1) \div 2]
        made == SpatialCrop_init_center(List(center), self.roi_size)
    IN  IF ~made.ok THEN made
        ELSE SpatialCrop_call(made.val, img)

CenterSpatialCrop_call(self, img) ==
    LET shape == SpatialShape(img)
        center == [i \in 1..Len(shape) |-> shape[i] \div 2]
        made == SpatialCrop_init_center(List(center), self.roi_size)
    IN  IF ~made.ok THEN made
        ELSE SpatialCrop_call(made.val, img)

-----------------------------------------------------------------------------
(* The shared random generator (Randomizable.R): a seeded stream of raw    *)
(* values, R.pos of which have been drawn.                                 *)

set_random_state(seed) == [seed |-> seed, pos |-> 0]

\* the raw value the stream of a seed holds at a position
Raw(seed, pos) == (seed + 1) * (2 * pos + 3) + pos * pos

\* R.randint(low, high): an integer of [low, high), or ValueError when the
\* range is empty, which leaves the generator as it was
randint(gen, low, high) ==
    IF low >= high THEN [ok |-> FALSE, val |-> 0, R |-> gen]
    ELSE [ok |-> TRUE,
          val |-> low + (Raw(gen.seed, gen.pos) % (high - low)),
          R |-> [gen EXCEPT !.pos = @ + 1]]

-----------------------------------------------------------------------------
(* RandSpatialCrop *)

None == <<>>

RandSpatialCrop_init(roi_size, random_center, random_size) ==
    [roi_size |-> roi_size, random_center |-> random_center,
     random_size |-> random_size, _size |-> None, _slices |-> None]

\* [self.R.randint(low=self._size[i], high=img_size[i] + 1) for i in ..]:
\* the draws of dimensions i..n after those of acc, one after the other
RECURSIVE DrawSizes(_, _, _, _, _)
DrawSizes(gen, size, img_size, i, acc) ==
    IF i > Len(img_size) THEN [ok |-> TRUE, val |-> acc, R |-> gen]
    ELSE LET d == randint(gen, size[i], img_size[i] + 1)
         IN  IF ~d.ok THEN [ok |-> FALSE, val |-> acc, R |-> d.R]
             ELSE DrawSizes(d.R, size, img_size, i + 1, Append(acc, d.val))

\* monai.data.utils.get_valid_patch_size: the patch size clamped to the
\* image, a size of 0 standing for the whole dimension
get_valid_patch_size(img_size, size) ==
    [i \in 1..Len(img_size) |->
        IF size[i] = 0 THEN img_size[i] ELSE Min(img_size[i], size[i])]

\* monai.data.utils.get_random_patch: a random placement of the patch in the
\* image, one draw for every dimension the patch does not fill
RECURSIVE get_random_patch(_, _, _, _, _)
get_random_patch(img_size, patch_size, gen, i, acc) ==
    IF i > Len(img_size) THEN [val |-> acc, R |-> gen]
    ELSE IF img_size[i] > patch_size[i]
    THEN LET d == randint(gen, 0, img_size[i] - patch_size[i])
         IN  get_random_patch(img_size, patch_size, d.R, i + 1,
                              Append(acc, <<d.val, d.val + patch_size[i]>>))
    ELSE get_random_patch(img_size, patch_size, gen, i + 1,
                          Append(acc, <<0, patch_size[i]>>))

\* a variant that keeps the slices of an earlier call when there are some
randomize_KeepCached(self, gen, img_size) ==
    LET t == ensure_tuple_rep(self.roi_size, Len(img_size))
    IN  IF ~t.ok THEN [ok |-> FALSE, err |-> "ValueError", self |-> self, R |-> gen]
        ELSE LET d == IF self.random_size
                      THEN DrawSizes(gen, t.val, img_size, 1, <<>>)
                      ELSE [ok |-> TRUE, val |-> t.val, R |-> gen]
             IN  IF ~d.ok
                 THEN [ok |-> FALSE, err |-> "ValueError",
                       self |-> [self EXCEPT !._size = t.val], R |-> d.R]
                 ELSE IF self.random_center /\ self._slices = None
                 THEN LET valid_size == get_valid_patch_size(img_size, d.val)
                          p == get_random_patch(img_size, valid_size, d.R, 1, <<>>)
                      IN  [ok |-> TRUE, err |-> "",
                           self |-> [self EXCEPT !._size = d.val, !._slices = p.val],
                           R |-> p.R]
                 ELSE [ok |-> TRUE, err |-> "",
                       self |-> [self EXCEPT !._size = d.val], R |-> d.R]

\* a variant that draws a size below the size of the image only
randomize_HighExclusive(self, gen, img_size) ==
    LET t == ensure_tuple_rep(self.roi_size, Len(img_size))
    IN  IF ~t.ok THEN [ok |-> FALSE, err |-> "ValueError", self |-> self, R |-> gen]
        ELSE LET d == IF self.random_size
                      THEN DrawSizes(gen, t.val, [i \in 1..Len(img_size) |-> img_size[i] - 1],
                                     1, <<>>)
                      ELSE [ok |-> TRUE, val |-> t.val, R |-> gen]
             IN  IF ~d.ok
                 THEN [ok |-> FALSE, err |-> "ValueError",
                       self |-> [self EXCEPT !._size = t.val], R |-> d.R]
                 ELSE IF self.random_center
                 THEN LET valid_size == get_valid_patch_size(img_size, d.val)
                          p == get_random_patch(img_size, valid_size, d.R, 1, <<>>)
                      IN  [ok |-> TRUE, err |-> "",
                           self |-> [self EXCEPT !._size = d.val, !._slices = p.val],
                           R |-> p.R]
                 ELSE [ok |-> TRUE, err |-> "",
                       self |-> [self EXCEPT !._size = d.val], R |-> d.R]

\* RandSpatialCrop.randomize: the object and the generator it leaves, also
\* when it raises: self._size is assigned before the sizes are drawn, and a
\* draw that raises leaves the draws before it consumed
randomize(self, gen, img_size) ==
    LET t == ensure_tuple_rep(self.roi_size, Len(img_size))
    IN  IF ~t.ok THEN [ok |-> FALSE, err |-> "ValueError", self |-> self, R |-> gen]
        ELSE LET d == IF self.random_size
                      THEN DrawSizes(gen, t.val, img_size, 1, <<>>)
                      ELSE [ok |-> TRUE, val |-> t.val, R |-> gen]
             IN  IF ~d.ok
                 THEN [ok |-> FALSE, err |-> "ValueError",
                       self |-> [self EXCEPT !._size = t.val], R |-> d.R]
                 ELSE IF self.random_center
                 THEN LET valid_size == get_valid_patch_size(img_size, d.val)
                          p == get_random_patch(img_size, valid_size, d.R, 1, <<>>)
                      IN  [ok |-> TRUE, err |-> "",
                           self |-> [self EXCEPT !._size = d.val, !._slices = p.val],
                           R |-> p.R]
                 ELSE [ok |-> TRUE, err |-> "",
                       self |-> [self EXCEPT !._size = d.val], R |-> d.R]

\* RandSpatialCrop.__call__: what it returns or raises, with the object and
\* the generator it leaves
RandSpatialCrop_call(self, gen, img) ==
    LET r == randomize(self, gen, SpatialShape(img))
    IN  [self |-> r.self, R |-> r.R,
         res |-> IF ~r.ok THEN Raise(r.err)
                 ELSE IF self.random_center THEN Return(Index(img, r.self._slices))
                 ELSE CenterSpatialCrop_call([roi_size |-> List(r.self._size)], img)]

-----------------------------------------------------------------------------
(* State.  image, arg and arg2 are the inputs of a run: an array and the   *)
(* arguments a transform is constructed with.  last records the last call  *)
(* (prev the call whose result it was applied to), cropper is the          *)
(* SpatialCrop object, rsc the RandSpatialCrop object, R the shared random *)
(* generator.                                                              *)

Call(op, args, input, res) == [op |-> op, args |-> args, img |-> input, res |-> res]

NoCall == Call("none", <<>>, <<>>, Raise("none"))

\* border sequences b with b[i] = x at odd i and y at even i
Alternating(len, x, y) == [i \in 1..len |-> IF i % 2 = 1 THEN x ELSE y]

\* what a pad transform or CenterSpatialCrop is constructed with: one int,
\* or a sequence of ints
Args ==
    {Scalar(v) : v \in (-1)..MaxSize}
    \cup {List(s) : s \in Lists(0..MaxSize, 1..MaxDims)}
    \cup {List(Alternating(len, x, y)) :
            len \in 1..(2 * MaxDims + 1), x \in (-1)..MaxBorder, y \in (-1)..MaxBorder}

Init ==
    /\ image \in Images
    /\ arg \in Args
    /\ arg2 = Scalar(0)
    /\ last = NoCall
    /\ prev = NoCall
    /\ cropper = Raise("none")
    /\ rsc = Raise("none")
    /\ R = [seed |-> 0, pos |-> 0]

-----------------------------------------------------------------------------------------------------------------------------------------------------
(* The stateless transforms, each constructed with arg and called on image. *)

SpatialPadCall ==
    \E method \in {"symmetric", "end"} :
        /\ last' = Call(method, arg, image,
                        SpatialPad_call(SpatialPad_init(arg, method), image))
        /\ prev' = NoCall
        /\ UNCHANGED <<image, arg, arg2, cropper, rsc, R>>

BorderPadCall ==
    /\ last' = Call("BorderPad", arg, image,
                    BorderPad_call([spatial_border |-> arg], image))
    /\ prev' = NoCall
    /\ UNCHANGED <<image, arg, arg2, cropper, rsc, R>>

DivisiblePadCall ==
    /\ last' = Call("DivisiblePad", arg, image, DivisiblePad_call([k |-> arg], image))
    /\ prev' = NoCall
    /\ UNCHANGED <<image, arg, arg2, cropper, rsc, R>>

CenterSpatialCropCall ==
    /\ last' = Call("CenterSpatialCrop", arg, image,
                    CenterSpatialCrop_call([roi_size |-> arg], image))
    /\ prev' = NoCall
    /\ UNCHANGED <<image, arg, arg2, cropper, rsc, R>>

\* CenterSpatialCrop(shape of image) called on the array DivisiblePad returned
CenterSpatialCropAfterPad ==
    /\ last.op = "DivisiblePad"
    /\ last.res.ok
    /\ LET roi_size == List(SpatialShape(image))
       IN  last' = Call("CenterSpatialCrop", roi_size, last.res.val,
                        CenterSpatialCrop_call([roi_size |-> roi_size], last.res.val))
    /\ prev' = last
    /\ UNCHANGED <<image, arg, arg2, cropper, rsc, R>>

Next ==
    \/ SpatialPadCall
    \/ BorderPadCall
    \/ DivisiblePadCall
    \/ CenterSpatialCropCall
    \/ CenterSpatialCropAfterPad

Spec == Init /\ [][Next]_vars

-----------------------------------------------------------------------------
(* Properties of the pad transforms. *)

NDim == Len(image) - 1
Dim(i) == Len(image[i + 1])
OutDim(i) == Len(last.res.val[i + 1])

IsSpatialPad == last.op \in {"symmetric", "end"}

\* the target of the last SpatialPad call names every spatial dimension
TargetFits == IsSpatialPad /\ Len(arg.val) = NDim

PadWidthOf(i) == Max(arg.val[i] - Dim(i), 0)

\* C6: SpatialPad pads spatial dimension i by width = max(target[i] -
\* shape[i], 0): floor(width/2) before and the rest (ceil(width/2)) after
\* with method symmetric, nothing before and width after with method end.
\* So the output size is max(target[i], shape[i]), the channel axis is
\* left as it is, and when every width is 0 the input itself is returned.
C6_SpatialPadWidths ==
    TargetFits =>
        /\ last.res.ok
        /\ last.res.val[1] = image[1]
        /\ \A i \in 1..NDim :
            LET w == PadWidthOf(i)
                before == IF last.op = "symmetric" THEN w \div 2 ELSE 0
            IN  /\ w >= 0
                /\ last.res.val[i + 1]
                     = Padding(before) \o image[i + 1] \o Padding(w - before)
                /\ (last.op = "symmetric" /\ w % 2 = 1) => 2 * (w - before) = w + 1
                /\ OutDim(i) = Max(arg.val[i], Dim(i))
                /\ OutDim(i) >= Dim(i)
        /\ last.res.alias <=> \A i \in 1..NDim : PadWidthOf(i) = 0
        /\ last.res.alias => last.res.val = image

\* a symmetric pad of odd width in one dimension and of width 0 in another
C6_Witness ==
    /\ TargetFits
    /\ last.op = "symmetric"
    /\ \E i \in 1..NDim : PadWidthOf(i) = 3
    /\ \E i \in 1..NDim : arg.val[i] < Dim(i)

\* the k of the last DivisiblePad call, one per spatial dimension
KFits == last.op = "DivisiblePad" /\ (arg.kind = "int" \/ Len(arg.val) = NDim)
KOf(i) == IF arg.kind = "int" THEN arg.val[1] ELSE arg.val[i]

\* C7: DivisiblePad gives every spatial dimension with k_i > 0 the smallest
\* multiple of k_i that is at least its size, leaves every dimension with
\* k_i <= 0 at its size, and leaves the channel axis as it is.
C7_DivisiblePadSize ==
    KFits =>
        /\ last.res.ok
        /\ last.res.val[1] = image[1]
        /\ \A i \in 1..NDim :
            IF KOf(i) > 0
            THEN /\ OutDim(i) % KOf(i) = 0
                 /\ OutDim(i) >= Dim(i)
                 /\ OutDim(i) - Dim(i) < KOf(i)
            ELSE OutDim(i) = Dim(i)

\* one dimension padded up to the next multiple, one kept by k_i <= 0
C7_Witness ==
    /\ KFits
    /\ \E i \in 1..NDim : KOf(i) > 1 /\ Dim(i) % KOf(i) # 0 /\ Dim(i) > KOf(i)
    /\ \E i \in 1..NDim : KOf(i) <= 0

\* the border of the last BorderPad call is v, [v]*n or [v, v]*n
UniformBorder ==
    /\ last.op = "BorderPad"
    /\ \A i \in 1..Len(arg.val) : arg.val[i] = arg.val[1] /\ arg.val[1] >= 0
    /\ \/ arg.kind = "int"
       \/ arg.kind = "seq" /\ Len(arg.val) \in {NDim, 2 * NDim}

\* C8: BorderPad(v), BorderPad([v]*n) and BorderPad([v, v]*n) all pad v
\* before and v after every spatial dimension and nothing on the channel
\* axis, for every n >= 1.
C8_BorderPadBroadcast ==
    UniformBorder =>
        /\ last.res.ok
        /\ last.res.val =
             [i \in 1..Len(image) |->
                 IF i = 1 THEN image[1]
                 ELSE Padding(arg.val[1]) \o image[i] \o Padding(arg.val[1])]

\* [v, v]*n on two spatial dimensions, v > 0
C8_Witness ==
    /\ UniformBorder
    /\ arg.kind = "seq" /\ Len(arg.val) = 4 /\ NDim = 2 /\ arg.val[1] > 0
    /\ last.res.ok

-----------------------------------------------------------------------------
(* Properties of CenterSpatialCrop. *)

\* the last call is CenterSpatialCrop([s_1, .., s_n]) on a source array of
\* spatial shape [2 s_1, .., 2 s_n], every s_i >= 1
HalfSizeCrop ==
    /\ last.op = "CenterSpatialCrop" /\ prev = NoCall
    /\ arg.kind = "seq" /\ Len(arg.val) = NDim
    /\ \A i \in 1..NDim : arg.val[i] >= 1 /\ Dim(i) = 2 * arg.val[i]

\* the axis holds consecutive source coordinates
Contiguous(ax) == \A j \in 1..Len(ax) : ax[j] = ax[1] + j - 1

\* source positions of dimension i left out before and after the crop
LeftOutBefore(i) == last.res.val[i + 1][1]
LeftOutAfter(i) == Dim(i) - 1 - last.res.val[i + 1][OutDim(i)]

\* C9 as stated: CenterSpatialCrop(s) on spatial size 2s returns a
\* contiguous slice of length s with as many positions left out before it
\* as after it, for every s >= 1, odd or even.
C9_AsStated ==
    HalfSizeCrop =>
        /\ last.res.ok
        /\ \A i \in 1..NDim :
            /\ OutDim(i) = arg.val[i]
            /\ Contiguous(last.res.val[i + 1])
            /\ LeftOutBefore(i) = LeftOutAfter(i)

\* C9 as amended: CenterSpatialCrop(s) on spatial size 2s returns a
\* contiguous slice of length s; for even s as many positions are left out
\* before it as after it, for odd s one more before it than after it.
C9_CenterCrop ==
    HalfSizeCrop =>
        /\ last.res.ok
        /\ \A i \in 1..NDim :
            /\ OutDim(i) = arg.val[i]
            /\ Contiguous(last.res.val[i + 1])
            /\ LeftOutBefore(i) = LeftOutAfter(i) + (arg.val[i] % 2)

\* an even and an odd s in one call
C9_Witness ==
    /\ HalfSizeCrop
    /\ last.res.ok
    /\ \E i \in 1..NDim : arg.val[i] = 2
    /\ \E i \in 1..NDim : arg.val[i] = 1

-----------------------------------------------------------------------------
(* DivisiblePad followed by CenterSpatialCrop. *)

\* the last call is CenterSpatialCrop(shape of image) on what
\* DivisiblePad(k), every k_i > 0, returned for image
PadThenCrop ==
    /\ last.op = "CenterSpatialCrop" /\ prev.op = "DivisiblePad"
    /\ prev.img = image /\ last.img = prev.res.val
    /\ last.args = List(SpatialShape(image))
    /\ \A i \in 1..NDim : KOf(i) > 0

PaddedDim(i) == Len(prev.res.val[i + 1])

\* C1 as stated: the crop returns the array DivisiblePad was given,
\* whatever the sizes and k.
C1_AsStated == PadThenCrop => last.res.ok /\ last.res.val = image

\* C1 as amended: the crop returns the array DivisiblePad was given in
\* every dimension whose size is even or whose padded size is odd; in a
\* dimension of odd size padded to an even size it returns the source
\* positions 1 .. size-1 followed by one padded position.
C1_PadThenCrop ==
    PadThenCrop =>
        /\ last.res.ok
        /\ last.res.val[1] = image[1]
        /\ \A i \in 1..NDim :
            IF Dim(i) % 2 = 1 /\ PaddedDim(i) % 2 = 0
            THEN last.res.val[i + 1] = Tail(image[i + 1]) \o <<PadMark>>
            ELSE last.res.val[i + 1] = image[i + 1]

\* a padded array cropped back to the array it was made from, one dimension
\* padded by an odd width
C1_Witness ==
    /\ PadThenCrop
    /\ last.res.ok /\ last.res.val = image
    /\ \E i \in 1..NDim : (PaddedDim(i) - Dim(i)) % 2 = 1

-----------------------------------------------------------------------------
(* SpatialCrop: constructed from (arg, arg2), read as (roi_center,         *)
(* roi_size) or as (roi_start, roi_end), then called on arrays.            *)

Coords == (-1)..MaxRoi

CropImages == {Image(s) : s \in Lists(1..MaxRoi, 1..MaxDims)}

InitCrop ==
    /\ \E n \in 1..MaxDims :
        /\ arg \in {List(s) : s \in [1..n -> Coords]}
        /\ arg2 \in {List(s) : s \in [1..n -> Coords]}
    /\ image = <<>>
    /\ last = NoCall
    /\ prev = NoCall
    /\ cropper = Raise("none")
    /\ rsc = Raise("none")
    /\ R = [seed |-> 0, pos |-> 0]

SpatialCropInitCenter ==
    /\ cropper' = SpatialCrop_init_center(arg, arg2)
    /\ last' = Call("SpatialCrop(roi_center, roi_size)", <<arg, arg2>>, <<>>, cropper')
    /\ prev' = NoCall
    /\ UNCHANGED <<image, arg, arg2, rsc, R>>

SpatialCropInitBounds ==
    /\ cropper' = SpatialCrop_init_bounds(arg, arg2)
    /\ last' = Call("SpatialCrop(roi_start, roi_end)", <<arg, arg2>>, <<>>, cropper')
    /\ prev' = NoCall
    /\ UNCHANGED <<image, arg, arg2, rsc, R>>

SpatialCropCall ==
    /\ cropper.ok
    /\ \E img \in CropImages :
        last' = Call("SpatialCrop.__call__", cropper.val, img,
                     SpatialCrop_call(cropper.val, img))
    /\ prev' = IF last.op = "SpatialCrop.__call__" THEN prev ELSE last
    /\ UNCHANGED <<image, arg, arg2, cropper, rsc, R>>

NextCrop ==
    \/ SpatialCropInitCenter
    \/ SpatialCropInitBounds
    \/ SpatialCropCall

SpecCrop == InitCrop /\ [][NextCrop]_vars

\* the ROI that (arg, arg2) describe, in the integers
GivenStart(i) ==
    IF last.op = "SpatialCrop(roi_center, roi_size)"
    THEN arg.val[i] - (arg2.val[i] \div 2)
    ELSE arg.val[i]
GivenEnd(i) ==
    IF last.op = "SpatialCrop(roi_center, roi_size)"
    THEN GivenStart(i) + arg2.val[i]
    ELSE arg2.val[i]

Constructing ==
    last.op \in {"SpatialCrop(roi_center, roi_size)", "SpatialCrop(roi_start, roi_end)"}

\* C2: the construction of a SpatialCrop fails whenever the ROI it is given,
\* or derives from center and size, has a negative start, a non-positive
\* end or an end before its start.
C2_AsStated ==
    (/\ Constructing
     /\ \E i \in 1..Len(arg.val) :
            GivenStart(i) < 0 \/ GivenEnd(i) <= 0 \/ GivenEnd(i) < GivenStart(i))
    => ~last.res.ok

\* the object of the last call, and the array it was called on
CheckedDims == Min(Len(last.args.roi_start), Len(last.img) - 1)
EndInside == \A i \in 1..CheckedDims : Len(last.img[i + 1]) >= last.args.roi_end[i]

\* C4: a call of a constructed SpatialCrop on an array whose size is at
\* least the ROI's end in every checked dimension returns the positions
\* [start, end) of each checked dimension and the whole of the channel axis
\* and of the other dimensions; on any other array it fails with an
\* out-of-image error and returns nothing.
C4_CropContainment ==
    last.op = "SpatialCrop.__call__" =>
        IF EndInside
        THEN /\ last.res.ok
             /\ \A i \in 1..Len(last.img) :
                  IF i = 1 \/ i - 1 > CheckedDims
                  THEN last.res.val[i] = last.img[i]
                  ELSE /\ Len(last.res.val[i])
                            = last.args.roi_end[i - 1] - last.args.roi_start[i - 1]
                       /\ \A j \in 1..Len(last.res.val[i]) :
                            last.res.val[i][j] = last.args.roi_start[i - 1] + j - 1
        ELSE /\ ~last.res.ok
             /\ last.res.err \in {"AssertionError: roi start out of image space",
                                  "AssertionError: roi end out of image space"}

\* an ROI given as (roi_start, roi_end) of one dimension, cut from an array
\* of two spatial dimensions
C4_Witness ==
    /\ last.op = "SpatialCrop.__call__"
    /\ prev.op = "SpatialCrop(roi_start, roi_end)"
    /\ last.res.ok
    /\ Len(last.args.roi_start) = 1 /\ Len(last.img) = 3
    /\ last.args.roi_start[1] = 1 /\ last.args.roi_end[1] = 2

\* an ROI whose end is outside the array
C4_WitnessOutside ==
    /\ last.op = "SpatialCrop.__call__"
    /\ ~EndInside /\ ~last.res.ok

-----------------------------------------------------------------------------
(* RandSpatialCrop: one object, constructed with arg, called on image time *)
(* after time, the generator reseeded between calls.                       *)

RandSizes ==
    {Scalar(v) : v \in 1..(MaxRoi + 1)}
    \cup {List(s) : s \in Lists(1..(MaxRoi + 1), 1..MaxDims)}

InitRand ==
    /\ arg \in RandSizes
    /\ arg2 = Scalar(0)
    /\ image \in CropImages
    /\ last = NoCall
    /\ prev = NoCall
    /\ cropper = Raise("none")
    /\ \E random_center \in BOOLEAN, random_size \in BOOLEAN :
        rsc = Return(RandSpatialCrop_init(arg, random_center, random_size))
    /\ R = set_random_state(0)

SetRandomState ==
    \E seed \in 0..(NumSeeds - 1) :
        /\ R' = set_random_state(seed)
        /\ last' = Call("set_random_state", seed, <<>>, Return(<<>>))
        /\ prev' = NoCall
        /\ UNCHANGED <<image, arg, arg2, cropper, rsc>>

\* a call, on an array whose draws the generator can still serve
RandSpatialCropCall ==
    /\ LET c == RandSpatialCrop_call(rsc.val, R, image)
       IN  /\ c.R.pos <= MaxDraws
           /\ rsc' = Return(c.self)
           /\ R' = c.R
           /\ last' = Call("RandSpatialCrop", [self |-> rsc.val, R |-> R], image, c.res)
    /\ prev' = NoCall
    /\ UNCHANGED <<image, arg, arg2, cropper>>

NextRand ==
    \/ SetRandomState
    \/ RandSpatialCropCall

SpecRand == InitRand /\ [][NextRand]_vars

\* the object and the generator before the last call, and the array
Pre == last.args.self
PreR == last.args.R
RandDims == Len(last.img) - 1
RandDim(i) == Len(last.img[i + 1])
Called == last.op = "RandSpatialCrop"

\* C3 as stated: a call that raises leaves the generator and the object's
\* cached _size and _slices as they were before the call.
C3_AsStated ==
    (Called /\ ~last.res.ok) =>
        /\ R = PreR
        /\ rsc.val._size = Pre._size
        /\ rsc.val._slices = Pre._slices

\* what does hold of a call that raises: the cached slices are kept, the
\* generator keeps its seed and has served at most the draws of the
\* dimensions before the one that failed
C3_FailureKeepsSlices ==
    (Called /\ ~last.res.ok) =>
        /\ rsc.val._slices = Pre._slices
        /\ R.seed = PreR.seed
        /\ R.pos - PreR.pos < RandDims

\* a call that raised after it had drawn the size of the first dimension
C3_WitnessFailure ==
    /\ Called /\ ~last.res.ok
    /\ R.pos = PreR.pos + 1
    /\ rsc.val._size # Pre._size

\* C5: what a call returns or raises is what a newly constructed object of
\* the same configuration returns or raises on the same array from the same
\* generator state: the size and slices an earlier call cached play no part.
C5_ResultIgnoresCache ==
    Called =>
        LET fresh == RandSpatialCrop_init(Pre.roi_size, Pre.random_center,
                                          Pre.random_size)
            c == RandSpatialCrop_call(fresh, PreR, last.img)
        IN  /\ last.res = c.res
            /\ R = c.R

\* a call right after a reseed, on an object whose cached slices differ
\* from the ones the call computes
C5_Witness ==
    /\ Called /\ last.res.ok
    /\ PreR.pos = 0
    /\ Pre.random_center
    /\ Pre._slices # None
    /\ Pre._slices # rsc.val._slices

\* the configured size of dimension i
RoiOf(i) == IF Pre.roi_size.kind = "int" THEN Pre.roi_size.val[1] ELSE Pre.roi_size.val[i]

\* random size, fixed center, 1 <= roi_size[i] <= img_size[i] everywhere
RandomSizeFixedCenter ==
    /\ Called
    /\ Pre.random_size /\ ~Pre.random_center
    /\ Pre.roi_size.kind = "int" \/ Len(Pre.roi_size.val) = RandDims
    /\ \A i \in 1..RandDims : 1 <= RoiOf(i) /\ RoiOf(i) <= RandDim(i)

\* C10: with random size and fixed center, roi_size within the image, a
\* call never fails, serves one draw per dimension in dimension order, each
\* of [roi_size[i], img_size[i] + 1), and returns the center crop of the
\* drawn size s_i, [img_size[i] // 2 - s_i // 2, .. + s_i), inside the
\* image.  With fixed size and fixed center a call serves no draw.
C10_RandomSizeCenterCrop ==
    /\ RandomSizeFixedCenter =>
        /\ last.res.ok
        /\ R = [PreR EXCEPT !.pos = @ + RandDims]
        /\ Len(rsc.val._size) = RandDims
        /\ \A i \in 1..RandDims :
            LET s == rsc.val._size[i]
                start == (RandDim(i) \div 2) - (s \div 2)
            IN  /\ s = randint([PreR EXCEPT !.pos = @ + i - 1],
                               RoiOf(i), RandDim(i) + 1).val
                /\ RoiOf(i) <= s /\ s <= RandDim(i)
                /\ 0 <= start /\ start + s <= RandDim(i)
                /\ last.res.val[i + 1] = [j \in 1..s |-> start + j - 1]
        /\ last.res.val[1] = last.img[1]
    /\ (Called /\ ~Pre.random_size /\ ~Pre.random_center) => R = PreR

\* a call on two dimensions that drew the size of the image in one of them
\* and a smaller size in the other, not the first call on the object
C10_Witness ==
    /\ RandomSizeFixedCenter
    /\ RandDims = 2
    /\ Pre._size # None
    /\ \E i \in 1..2 : rsc.val._size[i] = RandDim(i)
    /\ \E i \in 1..2 : rsc.val._size[i] < RandDim(i)

\* a call with fixed size and fixed center
C10_WitnessFixed ==
    /\ Called /\ ~Pre.random_size /\ ~Pre.random_center /\ last.res.ok

====
